---- MODULE Spec2Model ----
(***************************************************************************)
(* WebCrawler4J crawl engine (src/assets/js/config.js): the WebCrawler     *)
(* class (queue, visited, processing, results, stats, robotsCache, the     *)
(* crawlWorker loops started by start()) and the robots.txt helpers of     *)
(* ConfigManager (parseRobotsTxt, isAllowedByRobots).                      *)
(*                                                                         *)
(* JavaScript runs one continuation at a time: the code between two        *)
(* awaits is atomic.  Every action below is one such turn: a call of       *)
(* start() or stop() by the embedding page, the resumption of one worker   *)
(* after its pending await settled, or the continuation of start() after   *)
(* Promise.all.  The synchronous code of a turn is written as operators    *)
(* from crawler state to crawler state (a record with one field per        *)
(* variable), in the order the source executes it.                         *)
(*                                                                         *)
(* Three specifications: Spec / FairSpec (runs started by start()),        *)
(* SpecPage (crawlPage called directly on a freshly constructed crawler)   *)
(* and SpecRobots (parseRobotsTxt followed by isAllowedByRobots).          *)
(*                                                                         *)
(* Not represented: timestamps (startTime / endTime are "set or not"),     *)
(* the onProgress callback and log lines, the crawl name, and the content  *)
(* of a page beyond its status and its anchors.                            *)
(***************************************************************************)
EXTENDS Integers, Sequences, FiniteSets, TLC

\* ---------------------------------------------------------------- bounds
MaxStarts == 2      \* calls of start() on the one crawler instance
MaxSeeds == 3       \* length of config.seedUrls
MaxCrawlers == 2    \* config.numCrawlers ranges over 1..MaxCrawlers
MaxLines == 3       \* directive lines of a robots.txt document

\* ------------------------------------------------------- the fetched web
\* URL strings.  "M" is a string that `new URL()` rejects.
URLs == {"S", "A", "B", "C", "P", "M"}

UrlValid(url) == url # "M"

\* new URL(url): origin (protocol//host) and pathname, as character tuples.
UrlOrigin(url) == IF url = "B" THEN "https://y.test" ELSE "https://x.test"

UrlPath(url) ==
    CASE url = "S" -> <<"/">>
      [] url = "A" -> <<"/", "p", "/", "a">>
      [] url = "B" -> <<"/">>
      [] url = "C" -> <<"/", "u">>
      [] url = "P" -> <<"/", "u", "/", "i">>
      [] OTHER -> <<>>

\* The anchors of the document served at a URL, in document order, already
\* resolved against the base URL (extractLinks keeps order and duplicates).
PageLinks(url) ==
    CASE url = "S" -> <<"A", "B", "C", "S">>
      [] url = "A" -> <<"C", "P">>
      [] url = "C" -> <<"A", "S">>
      [] OTHER -> <<>>

VARIABLES
    config,        \* this.config, fixed by the constructor
    queue,         \* this.queue: sequence of [url, depth]
    visited,       \* this.visited
    processing,    \* this.processing
    results,       \* this.results: sequence of page records
    isRunning,     \* this.isRunning
    stats,         \* this.stats
    robotsCache,   \* this.robotsCache: a function from the cached origins
    w,             \* the crawlWorker coroutines: <<run, workerId>> -> frame
    startPc,       \* the start() calls: run -> position
    nStarts,       \* number of start() calls made so far
    events,        \* callbacks invoked so far
    enqueued,      \* history: every entry pushed on the queue, in order
    claimed,       \* history: every entry shifted off the queue, in order
    fetched,       \* history: url -> number of fetchPage(url) calls
    stopCalled,    \* history: stop() has run (externally or on budget)
    envFailed,     \* history: a page fetch or store write did not succeed
    stoppedRuns,   \* history: the runs that were live when stop() ran
    steps,         \* history: the crawlPage continuations each frame ran
    rDoc, rUrl, rRules, rOut, rPc   \* robots.txt helper calls (SpecRobots)

vars == <<config, queue, visited, processing, results, isRunning, stats,
          robotsCache, w, startPc, nStarts, events, enqueued, claimed,
          fetched, stopCalled, envFailed, stoppedRuns, steps, rDoc, rUrl,
          rRules, rOut, rPc>>

crawlerVars == <<config, queue, visited, processing, results, isRunning,
                 stats, robotsCache, w, startPc, nStarts, events, enqueued,
                 claimed, fetched, stopCalled, envFailed, stoppedRuns, steps>>

robotsVars == <<rDoc, rUrl, rRules, rOut, rPc>>

\* ------------------------------------------------- Utils.matchesPattern
\* A pattern is the empty string (NoPattern) or a regular-expression source.
\* A source is represented by whether `new RegExp` accepts it and, if it
\* does, by the URLs of the universe on which RegExp.test answers true.
NoPattern == [empty |-> TRUE, valid |-> TRUE, matches |-> {}]

PngPattern == [empty |-> FALSE, valid |-> TRUE, matches |-> {"P"}]

\* A source that `new RegExp` rejects.
BadPattern == [empty |-> FALSE, valid |-> FALSE, matches |-> {}]

MatchesPattern(url, pattern) ==
    IF pattern.empty THEN TRUE             \* if (!pattern) return true
    ELSE IF ~pattern.valid THEN FALSE      \* new RegExp throws: catch
    ELSE url \in pattern.matches

\* ------------------------------------------------ crawl configurations
\* Every list of up to MaxSeeds seeds over two URLs (repeats included), and
\* two lists of pairwise different seeds.
SeedURLs == {"S", "P"}

SeedLists ==
    UNION {[1..n -> SeedURLs] : n \in 1..MaxSeeds}
        \cup {<<"S", "A">>, <<"S", "A", "P">>}

UserAgent == <<"b">>       \* config.userAgent, as a character tuple

\* Every seed list, worker count, delay and exclude pattern, at the default
\* depth and budget; and every depth, budget and robots setting on two
\* short seed lists.
BaseConfigs ==
    [seedUrls : SeedLists,
     maxDepth : {1},
     maxPages : {10},
     numCrawlers : 1..MaxCrawlers,
     politenessDelay : {0, 200},
     urlPattern : {NoPattern},
     excludePattern : {NoPattern, PngPattern},
     respectRobots : {FALSE}]

VariantConfigs ==
    [seedUrls : {<<"S">>, <<"S", "A">>},
     maxDepth : {0, 1, 2},
     maxPages : {1, 2, 10},
     numCrawlers : 1..MaxCrawlers,
     politenessDelay : {0},
     urlPattern : {NoPattern},
     excludePattern : {PngPattern},
     respectRobots : BOOLEAN]

\* One valid configuration, and its variants with one field out of range:
\* the constructor stores whatever object it is given.
PlainConfig ==
    [seedUrls |-> <<"S">>, maxDepth |-> 1, maxPages |-> 10,
     numCrawlers |-> 1, politenessDelay |-> 0, urlPattern |-> NoPattern,
     excludePattern |-> NoPattern, respectRobots |-> FALSE]

InvalidConfigs ==
    {[PlainConfig EXCEPT !.seedUrls = <<"M">>],
     [PlainConfig EXCEPT !.seedUrls = <<"S", "M">>],
     [PlainConfig EXCEPT !.urlPattern = BadPattern],
     [PlainConfig EXCEPT !.excludePattern = BadPattern],
     [PlainConfig EXCEPT !.maxPages = 0],
     [PlainConfig EXCEPT !.numCrawlers = 0],
     [PlainConfig EXCEPT !.maxDepth = -1],
     [PlainConfig EXCEPT !.politenessDelay = -1]}

Configs == BaseConfigs \cup VariantConfigs \cup InvalidConfigs

\* ConfigManager.validateCrawlConfig(cfg): the errors it collects.  The
\* crawl name, which the engine never reads, is taken to be non-empty.
ValidateCrawlConfig(cfg) ==
    LET errors ==
            (IF cfg.seedUrls = <<>> THEN {"seedRequired"} ELSE {})
            \cup (IF \E i \in DOMAIN cfg.seedUrls : ~UrlValid(cfg.seedUrls[i])
                  THEN {"invalidUrl"} ELSE {})
            \cup (IF cfg.maxDepth < 0 THEN {"maxDepth"} ELSE {})
            \cup (IF cfg.maxPages < 1 THEN {"maxPages"} ELSE {})
            \cup (IF cfg.numCrawlers < 1 \/ cfg.numCrawlers > 10
                  THEN {"numCrawlers"} ELSE {})
            \cup (IF cfg.politenessDelay < 0 THEN {"politenessDelay"} ELSE {})
            \cup (IF ~cfg.urlPattern.empty /\ ~cfg.urlPattern.valid
                  THEN {"urlPattern"} ELSE {})
            \cup (IF ~cfg.excludePattern.empty /\ ~cfg.excludePattern.valid
                  THEN {"excludePattern"} ELSE {})
    IN  [isValid |-> errors = {}, errors |-> errors]

\* The embedding page calls start() once; on these configurations it may
\* call it again, up to MaxStarts times in all.
RestartConfigs ==
    [seedUrls : {<<"S">>, <<"S", "A">>},
     maxDepth : {1},
     maxPages : {10},
     numCrawlers : {1, 2},
     politenessDelay : {0, 200},
     urlPattern : {NoPattern},
     excludePattern : {NoPattern},
     respectRobots : {FALSE}]

StartLimit == IF config \in RestartConfigs THEN MaxStarts ELSE 1

\* ------------------------------------------------ robots.txt helpers
\* A robots.txt document is the sequence of its lines after
\* `trimmed.split(':')`: key is the lower-cased first part, value the
\* trimmed rest, as a character tuple.  Blank and comment lines have key "#".
\* NoRules stands for a null / undefined rules argument.
NoRules == [allowed |-> <<>>, disallowed |-> <<>>, crawlDelay |-> -1]

EmptyRules == [allowed |-> <<>>, disallowed |-> <<>>, crawlDelay |-> 0]

Digits == {"0", "5"}

DigitValue(c) == IF c = "5" THEN 5 ELSE 0

\* parseInt(value): the value of the leading digits, -1 for NaN.
RECURSIVE ParseDigits(_, _)
ParseDigits(value, acc) ==
    IF value = <<>> \/ Head(value) \notin Digits THEN acc
    ELSE ParseDigits(Tail(value), 10 * acc + DigitValue(Head(value)))

ParseInt(value) ==
    IF value = <<>> \/ Head(value) \notin Digits THEN -1
    ELSE ParseDigits(value, 0)

\* One iteration of the `for (const line of lines)` loop of parseRobotsTxt.
\* st carries rules and matchesAgent.
ParseLine(st, line, userAgent) ==
    IF line.key = "#" THEN st
    ELSE IF line.key = "user-agent"
    THEN [st EXCEPT !.matchesAgent =
                        (line.value = <<"*">> \/ line.value = userAgent)]
    ELSE IF st.matchesAgent
    THEN IF line.key = "disallow"
         THEN IF line.value # <<>>
              THEN [st EXCEPT !.rules.disallowed = Append(@, line.value)]
              ELSE st
         ELSE IF line.key = "allow"
         THEN IF line.value # <<>>
              THEN [st EXCEPT !.rules.allowed = Append(@, line.value)]
              ELSE st
         ELSE IF line.key = "crawl-delay"
         THEN [st EXCEPT !.rules.crawlDelay =
                  IF ParseInt(line.value) > 0 THEN ParseInt(line.value) ELSE 0]
         ELSE st
    ELSE st

RECURSIVE ParseLines(_, _, _)
ParseLines(st, lines, userAgent) ==
    IF lines = <<>> THEN st
    ELSE ParseLines(ParseLine(st, Head(lines), userAgent), Tail(lines),
                    userAgent)

ParseRobotsTxt(robotsTxt, userAgent) ==
    ParseLines([rules |-> EmptyRules, matchesAgent |-> FALSE],
               robotsTxt, userAgent).rules

\* String.prototype.startsWith on character tuples.
StartsWith(path, prefix) ==
    /\ Len(prefix) <= Len(path)
    /\ SubSeq(path, 1, Len(prefix)) = prefix

\* The two `for ... of` loops of isAllowedByRobots: the first hit returns.
RECURSIVE AnyStartsWith(_, _)
AnyStartsWith(path, prefixes) ==
    IF prefixes = <<>> THEN FALSE
    ELSE IF StartsWith(path, Head(prefixes)) THEN TRUE
    ELSE AnyStartsWith(path, Tail(prefixes))

IsAllowedByRobotsDisallowFirst(url, rules) ==
    IF rules = NoRules THEN TRUE
    ELSE IF ~UrlValid(url) THEN FALSE
    ELSE IF AnyStartsWith(UrlPath(url), rules.disallowed) THEN FALSE
    ELSE TRUE

IsAllowedByRobots(url, rules) ==
    IF rules = NoRules THEN TRUE                       \* if (!rules)
    ELSE IF ~UrlValid(url) THEN FALSE                  \* catch: new URL threw
    ELSE IF AnyStartsWith(UrlPath(url), rules.allowed) THEN TRUE
    ELSE IF AnyStartsWith(UrlPath(url), rules.disallowed) THEN FALSE
    ELSE TRUE

\* The robots.txt served by each origin when its fetch succeeds.
RobotsDoc(origin) ==
    IF origin = "https://x.test"
    THEN << [key |-> "user-agent", value |-> <<"*">>],
            [key |-> "disallow", value |-> <<"/", "p">>] >>
    ELSE <<>>

\* ------------------------------------------------ crawler state
Runs == 1..MaxStarts

Workers == Runs \X (0..(MaxCrawlers - 1))

\* The frame of one crawlWorker / crawlPage call chain: where it is
\* suspended and the locals it holds (item.url, item.depth, the robots
\* verdict, the response status).
NoFrame == [pc |-> "none", url |-> "", depth |-> 0, allowed |-> FALSE,
            status |-> 0]

\* A continuation of crawlPage: the await it resumed from and the value
\* that await delivered.
Step(pc, out) == [pc |-> pc, out |-> out]

Cur ==
    [queue |-> queue, visited |-> visited, processing |-> processing,
     results |-> results, isRunning |-> isRunning, stats |-> stats,
     robotsCache |-> robotsCache, w |-> w, events |-> events,
     enqueued |-> enqueued, claimed |-> claimed, fetched |-> fetched,
     stopCalled |-> stopCalled, stoppedRuns |-> stoppedRuns, steps |-> steps]

Commit(s) ==
    /\ queue' = s.queue
    /\ visited' = s.visited
    /\ processing' = s.processing
    /\ results' = s.results
    /\ isRunning' = s.isRunning
    /\ stats' = s.stats
    /\ robotsCache' = s.robotsCache
    /\ w' = s.w
    /\ events' = s.events
    /\ enqueued' = s.enqueued
    /\ claimed' = s.claimed
    /\ fetched' = s.fetched
    /\ stopCalled' = s.stopCalled
    /\ stoppedRuns' = s.stoppedRuns
    /\ steps' = s.steps

SetPc(s, wid, pc) == [s EXCEPT !.w[wid].pc = pc]

\* The worker's async function returns: its frame is gone.
Return(s, wid) == [s EXCEPT !.w[wid] = [NoFrame EXCEPT !.pc = "done"]]

\* ------------------------------------------------ WebCrawler methods
ShouldVisitNoExclude(s, url, depth) ==
    IF url \in s.visited THEN FALSE
    ELSE IF url \in s.processing THEN FALSE
    ELSE IF config.maxDepth > 0 /\ depth > config.maxDepth THEN FALSE
    ELSE IF ~config.urlPattern.empty
            /\ ~MatchesPattern(url, config.urlPattern) THEN FALSE
    ELSE TRUE

ShouldVisit(s, url, depth) ==
    IF url \in s.visited THEN FALSE
    ELSE IF url \in s.processing THEN FALSE
    ELSE IF config.maxDepth > 0 /\ depth > config.maxDepth THEN FALSE
    ELSE IF ~config.urlPattern.empty
            /\ ~MatchesPattern(url, config.urlPattern) THEN FALSE
    ELSE IF ~config.excludePattern.empty
            /\ MatchesPattern(url, config.excludePattern) THEN FALSE
    ELSE TRUE

AddToQueueFront(s, url, depth) ==
    IF ShouldVisit(s, url, depth)
    THEN [s EXCEPT !.queue = <<[url |-> url, depth |-> depth]>> \o @,
                   !.stats.pagesQueued = @ + 1,
                   !.enqueued = Append(@, [url |-> url, depth |-> depth])]
    ELSE s

AddToQueue(s, url, depth) ==
    IF ShouldVisit(s, url, depth)
    THEN [s EXCEPT !.queue = Append(@, [url |-> url, depth |-> depth]),
                   !.stats.pagesQueued = @ + 1,
                   !.enqueued = Append(@, [url |-> url, depth |-> depth])]
    ELSE s

\* urls.forEach(url => this.addToQueue(url, depth))
RECURSIVE AddAllToQueue(_, _, _)
AddAllToQueue(s, urls, depth) ==
    IF urls = <<>> THEN s
    ELSE AddAllToQueue(AddToQueue(s, Head(urls), depth), Tail(urls), depth)

\* The start() calls that have launched their workers and not returned.
LiveRuns == {r \in Runs : startPc[r] = "awaitAll"}

StopBodyToggle(s) ==
    [s EXCEPT !.isRunning = ~@, !.queue = <<>>, !.stopCalled = TRUE,
              !.stoppedRuns = @ \cup LiveRuns]

StopBody(s) ==
    [s EXCEPT !.isRunning = FALSE, !.queue = <<>>, !.stopCalled = TRUE,
              !.stoppedRuns = @ \cup LiveRuns]

\* fetchPage(url): the request is issued, the caller suspends on it.
FetchPageEnter(s, wid) ==
    LET url == s.w[wid].url
    IN  [s EXCEPT !.w[wid].pc = "fetch", !.fetched[url] = @ + 1]

CheckRobotsEnterNoCache(s, wid) ==
    IF ~UrlValid(s.w[wid].url)
    THEN [s EXCEPT !.w[wid].pc = "robotsDone", !.w[wid].allowed = TRUE]
    ELSE SetPc(s, wid, "robotsFetch")

\* checkRobotsTxt(url) up to its first await.  A URL that `new URL` rejects
\* lands in the outer catch, which returns true.
CheckRobotsEnter(s, wid) ==
    LET url == s.w[wid].url
        domain == UrlOrigin(url)
    IN  IF ~UrlValid(url)
        THEN [s EXCEPT !.w[wid].pc = "robotsDone", !.w[wid].allowed = TRUE]
        ELSE IF domain \in DOMAIN s.robotsCache
        THEN [s EXCEPT !.w[wid].pc = "robotsDone",
                       !.w[wid].allowed =
                           IsAllowedByRobots(url, s.robotsCache[domain])]
        ELSE SetPc(s, wid, "robotsFetch")

RobotsFetchedNoCache(s, wid, out) ==
    LET url == s.w[wid].url
        domain == UrlOrigin(url)
        rules == ParseRobotsTxt(RobotsDoc(domain), UserAgent)
        cache == [o \in DOMAIN s.robotsCache \cup {domain} |->
                     IF o = domain THEN rules ELSE s.robotsCache[o]]
    IN  [s EXCEPT !.robotsCache = IF out = "ok" THEN cache ELSE @,
                  !.steps[wid] = Append(@, Step("robotsFetch", out)),
                  !.w[wid].pc = "robotsDone",
                  !.w[wid].allowed =
                      IF out = "ok" THEN IsAllowedByRobots(url, rules)
                      ELSE TRUE]

\* checkRobotsTxt after `await fetch(robotsUrl)` (and `await
\* response.text()`, which touches no crawler state in between).
RobotsFetched(s, wid, out) ==
    LET url == s.w[wid].url
        domain == UrlOrigin(url)
        rules == IF out = "ok"
                 THEN ParseRobotsTxt(RobotsDoc(domain), UserAgent)
                 ELSE EmptyRules
        cache == [o \in DOMAIN s.robotsCache \cup {domain} |->
                     IF o = domain THEN rules ELSE s.robotsCache[o]]
    IN  [s EXCEPT !.robotsCache = cache,
                  !.steps[wid] = Append(@, Step("robotsFetch", out)),
                  !.w[wid].pc = "robotsDone",
                  !.w[wid].allowed =
                      IF out = "ok" THEN IsAllowedByRobots(url, rules)
                      ELSE TRUE]

CrawlPageEnterNoMark(s, wid) ==
    IF ~ShouldVisit(s, s.w[wid].url, s.w[wid].depth)
    THEN SetPc(s, wid, "crawlReturn")
    ELSE IF config.respectRobots
    THEN CheckRobotsEnter(s, wid)
    ELSE FetchPageEnter(s, wid)

\* crawlPage(url, depth) up to its first await or its return.
CrawlPageEnter(s, wid) ==
    LET url == s.w[wid].url
        depth == s.w[wid].depth
    IN  IF ~ShouldVisit(s, url, depth)
        THEN SetPc(s, wid, "crawlReturn")
        ELSE LET s1 == [s EXCEPT !.visited = @ \cup {url}]
             IN  IF config.respectRobots
                 THEN CheckRobotsEnter(s1, wid)
                 ELSE FetchPageEnter(s1, wid)

RobotsCheckedFetchAnyway(s, wid) ==
    FetchPageEnter([s EXCEPT !.steps[wid] =
                                 Append(@, Step("robotsDone",
                                                IF s.w[wid].allowed
                                                THEN "true" ELSE "false"))],
                   wid)

\* crawlPage after `await this.checkRobotsTxt(url)`.
RobotsChecked(s, wid) ==
    LET s1 == [s EXCEPT !.steps[wid] =
                            Append(@, Step("robotsDone",
                                           IF s.w[wid].allowed THEN "true"
                                           ELSE "false"))]
    IN  IF ~s.w[wid].allowed
        THEN SetPc(s1, wid, "crawlReturn")
        ELSE FetchPageEnter(s1, wid)

\* crawlPage after fetchPage and processPage settled: neither touches
\* crawler state.  out is the response status, or "reject" for a network
\* error or timeout; fetch rejects a URL it cannot parse.
PageFetched(s, wid, out) ==
    LET url == s.w[wid].url
        depth == s.w[wid].depth
        status == IF out = "404" THEN 404 ELSE 200
        s0 == [s EXCEPT !.steps[wid] = Append(@, Step("fetch", out))]
    IN  IF out = "reject" \/ ~UrlValid(url)
        THEN SetPc(s0, wid, "crawlThrow")
        ELSE [s0 EXCEPT !.results = Append(@, [url |-> url, depth |-> depth,
                                              status |-> status]),
                       !.stats.pagesProcessed = @ + 1,
                       !.w[wid].status = status,
                       !.w[wid].pc = "save"]

\* extractLinks(pageData.html, url): the anchors of the served document;
\* an error document carries none.
ExtractLinks(url, status) == IF status = 200 THEN PageLinks(url) ELSE <<>>

\* crawlPage after `await storage.savePage(pageData)`.
PageSaved(s, wid, out) ==
    LET url == s.w[wid].url
        depth == s.w[wid].depth
        s0 == [s EXCEPT !.steps[wid] = Append(@, Step("save", out))]
        s1 == IF depth < config.maxDepth \/ config.maxDepth = 0
              THEN AddAllToQueue(s0, ExtractLinks(url, s.w[wid].status),
                                 depth + 1)
              ELSE s0
    IN  IF out = "reject"
        THEN SetPc(s0, wid, "crawlThrow")
        ELSE [s1 EXCEPT !.events.onPageCrawled = Append(@, url),
                        !.w[wid].pc = "crawlReturn"]

LoopCondNoDrain(s) ==
    s.isRunning /\ (Len(s.queue) >= 0 \/ s.processing # {})

\* The condition of the while loop of crawlWorker.
LoopCond(s) ==
    s.isRunning /\ (Len(s.queue) > 0 \/ s.processing # {})

ShiftRestKeep(q) == q

\* this.queue.shift(): the item returned and the queue left behind.
ShiftRest(q) == IF q = <<>> THEN q ELSE Tail(q)

\* crawlWorker from the loop test to the first await of the iteration.
LoopHead(s, wid) ==
    IF ~LoopCond(s) THEN Return(s, wid)
    ELSE IF s.queue = <<>> THEN SetPc(s, wid, "sleep100")
    ELSE LET item == Head(s.queue)
             s1 == [s EXCEPT !.queue = ShiftRest(@),
                             !.claimed = Append(@, item)]
         IN  IF s1.stats.pagesProcessed >= config.maxPages
             THEN Return(StopBody(s1), wid)
             ELSE CrawlPageEnter(
                      [s1 EXCEPT !.processing = @ \cup {item.url},
                                 !.w[wid].url = item.url,
                                 !.w[wid].depth = item.depth],
                      wid)

\* crawlWorker after the try / catch: the politeness delay, or straight on
\* to the next iteration.
AfterCrawl(s, wid) ==
    IF config.politenessDelay > 0 THEN SetPc(s, wid, "delay")
    ELSE LoopHead(s, wid)

\* The values a settled await can deliver at each suspension point.
Outcomes(pc) ==
    CASE pc = "robotsFetch" -> {"ok", "notok", "reject"}
      [] pc = "fetch" -> {"200", "404", "reject"}
      [] pc = "save" -> {"ok", "reject"}
      [] OTHER -> {"ok"}

\* The continuation of worker wid after its pending await delivered out.
ResumeBody(s, wid, out) ==
    LET f == s.w[wid]
    IN  CASE f.pc = "sleep100" -> LoopHead(s, wid)
          [] f.pc = "delay" -> LoopHead(s, wid)
          [] f.pc = "crawlReturn" ->
                 AfterCrawl([s EXCEPT !.processing = @ \ {f.url}], wid)
          [] f.pc = "crawlThrow" ->
                 AfterCrawl([s EXCEPT !.processing = @ \ {f.url},
                                      !.stats.errors = @ + 1,
                                      !.events.onError = Append(@, f.url)],
                            wid)
          [] f.pc = "robotsFetch" -> RobotsFetched(s, wid, out)
          [] f.pc = "robotsDone" -> RobotsChecked(s, wid)
          [] f.pc = "fetch" -> PageFetched(s, wid, out)
          [] f.pc = "save" -> PageSaved(s, wid, out)

\* start(): `promises.push(this.crawlWorker(i))` for i = 0 .. numCrawlers-1;
\* each call runs synchronously up to the worker's first await.
RECURSIVE LaunchWorkers(_, _, _)
LaunchWorkers(s, r, i) ==
    IF i >= config.numCrawlers THEN s
    ELSE LaunchWorkers(LoopHead(s, <<r, i>>), r, i + 1)

\* ------------------------------------------------ initial state
\* The state the constructor leaves, for any crawl configuration.
InitCrawler(cfgs) ==
    /\ config \in cfgs
    /\ queue = <<>>
    /\ visited = {}
    /\ processing = {}
    /\ results = <<>>
    /\ isRunning = FALSE
    /\ stats = [pagesProcessed |-> 0, pagesQueued |-> 0, startTime |-> FALSE,
                endTime |-> FALSE, errors |-> 0]
    /\ robotsCache = [o \in {} |-> EmptyRules]
    /\ w = [wid \in Workers |-> NoFrame]
    /\ startPc = [r \in Runs |-> "notCalled"]
    /\ nStarts = 0
    /\ events = [onComplete |-> [r \in Runs |-> 0], onError |-> <<>>,
                 onPageCrawled |-> <<>>]
    /\ enqueued = <<>>
    /\ claimed = <<>>
    /\ fetched = [u \in URLs |-> 0]
    /\ stopCalled = FALSE
    /\ envFailed = FALSE
    /\ stoppedRuns = {}
    /\ steps = [wid \in Workers |-> <<>>]

Init ==
    /\ InitCrawler(Configs)
    /\ rDoc = <<>>
    /\ rUrl = "S"
    /\ rRules = NoRules
    /\ rOut = FALSE
    /\ rPc = "off"

\* ------------------------------------------------ actions
AlreadyRunningNever == FALSE

\* The guard at the head of start(): `if (this.isRunning) throw`.
AlreadyRunning == isRunning

\* start() on an idle instance: seeds the queue and launches the workers.
StartRun ==
    /\ nStarts < StartLimit
    /\ ~AlreadyRunning
    /\ LET r == nStarts + 1
           s0 == [Cur EXCEPT !.isRunning = TRUE, !.stats.startTime = TRUE]
           s1 == AddAllToQueue(s0, config.seedUrls, 0)
           s2 == LaunchWorkers(s1, r, 0)
       IN  /\ Commit(s2)
           /\ startPc' = [startPc EXCEPT ![r] = "awaitAll"]
           /\ nStarts' = r
    /\ UNCHANGED <<config, envFailed, robotsVars>>

\* start() while isRunning: throws 'Crawler is already running'.
StartRejected ==
    /\ nStarts < StartLimit
    /\ AlreadyRunning
    /\ startPc' = [startPc EXCEPT ![nStarts + 1] = "threw"]
    /\ nStarts' = nStarts + 1
    /\ UNCHANGED <<config, queue, visited, processing, results, isRunning,
                   stats, robotsCache, w, events, enqueued, claimed, fetched,
                   stopCalled, envFailed, stoppedRuns, steps, robotsVars>>

\* stop(), called by the embedding page at any time.
Stop ==
    /\ Commit(StopBody(Cur))
    /\ UNCHANGED <<config, startPc, nStarts, envFailed, robotsVars>>

\* The event loop resumes worker wid: its pending await (a timer, a fetch,
\* a store write, or the promise of crawlPage) has settled.
Resume(wid) ==
    /\ w[wid].pc \notin {"none", "done"}
    /\ \E out \in Outcomes(w[wid].pc) :
           /\ Commit(ResumeBody(Cur, wid, out))
           /\ envFailed' = (envFailed \/ (/\ w[wid].pc \in {"fetch", "save"}
                                          /\ out \notin {"200", "ok"}))
    /\ UNCHANGED <<config, startPc, nStarts, robotsVars>>

\* start() after `await Promise.all(promises)`: every worker of the call
\* has returned.
Complete(r) ==
    /\ startPc[r] = "awaitAll"
    /\ \A wid \in Workers : wid[1] = r => w[wid].pc \in {"none", "done"}
    /\ isRunning' = FALSE
    /\ stats' = [stats EXCEPT !.endTime = TRUE]
    /\ events' = [events EXCEPT !.onComplete[r] = @ + 1]
    /\ startPc' = [startPc EXCEPT ![r] = "returned"]
    /\ UNCHANGED <<config, queue, visited, processing, results, robotsCache,
                   w, nStarts, enqueued, claimed, fetched, stopCalled,
                   envFailed, stoppedRuns, steps, robotsVars>>

Next ==
    \/ StartRun
    \/ StartRejected
    \/ Stop
    \/ \E wid \in Workers : Resume(wid)
    \/ \E r \in Runs : Complete(r)

Spec == Init /\ [][Next]_vars

\* Every timer, fetch and store write eventually settles, and a settled
\* promise's continuation is eventually run.
FairSpec ==
    /\ Spec
    /\ \A wid \in Workers : WF_vars(Resume(wid))
    /\ \A r \in Runs : WF_vars(Complete(r))

\* ------------------------------------------------ direct crawlPage calls
\* crawlPage(url, depth, workerId) called on a freshly constructed crawler,
\* as a caller other than crawlWorker does: the URL is not in
\* this.processing when shouldVisit tests it.
PageConfigs ==
    [seedUrls : {<<"S">>},
     maxDepth : {1},
     maxPages : {10},
     numCrawlers : {1},
     politenessDelay : {0},
     urlPattern : {NoPattern},
     excludePattern : {PngPattern},
     respectRobots : BOOLEAN]

\* The URLs the calls are made with: a page with links, a page robots.txt
\* disallows, and a string that is not a URL.
PageUrls == {"S", "A", "M"}

\* The frames of the calls: up to MaxCrawlers calls may be pending at once.
PageCalls == {<<1, i>> : i \in 0..(MaxCrawlers - 1)}

InitPage ==
    /\ InitCrawler(PageConfigs)
    /\ rDoc = <<>>
    /\ rUrl = "S"
    /\ rRules = NoRules
    /\ rOut = FALSE
    /\ rPc = "off"

\* crawlPage(url, depth, workerId), up to its first await or its return.
\* pc "crawlReturn" is then the resolved promise, "crawlThrow" the
\* rejected one.
CallCrawlPage(wid, url, depth) ==
    /\ w[wid].pc = "none"
    /\ Commit(CrawlPageEnter([Cur EXCEPT !.w[wid].url = url,
                                         !.w[wid].depth = depth], wid))
    /\ UNCHANGED <<config, startPc, nStarts, envFailed, robotsVars>>

\* The call resumes after its pending await settled.
PageStep(wid) ==
    /\ w[wid].pc \in {"robotsFetch", "robotsDone", "fetch", "save"}
    /\ \E out \in Outcomes(w[wid].pc) :
           /\ Commit(ResumeBody(Cur, wid, out))
           /\ envFailed' = (envFailed \/ (/\ w[wid].pc \in {"fetch", "save"}
                                          /\ out \notin {"200", "ok"}))
    /\ UNCHANGED <<config, startPc, nStarts, robotsVars>>

NextPage ==
    \/ \E wid \in PageCalls, url \in PageUrls :
           CallCrawlPage(wid, url, 0)
    \/ \E wid \in PageCalls : PageStep(wid)

SpecPage == InitPage /\ [][NextPage]_vars

\* ------------------------------------------------ robots helper calls
RobotsLines ==
    [key : {"user-agent"}, value : {<<"*">>, <<"b">>, <<"o">>}]
    \cup [key : {"disallow"}, value : {<<>>, <<"/", "p">>}]
    \cup [key : {"allow"}, value : {<<>>, <<"/", "p", "/", "a">>}]
    \cup [key : {"crawl-delay"}, value : {<<"5">>, <<"x">>}]
    \cup [key : {"#"}, value : {<<>>}]

RobotsDocs == UNION {[1..n -> RobotsLines] : n \in 0..MaxLines}

DefaultConfig ==
    [seedUrls |-> <<"S">>, maxDepth |-> 1, maxPages |-> 10,
     numCrawlers |-> 2, politenessDelay |-> 200, urlPattern |-> NoPattern,
     excludePattern |-> NoPattern, respectRobots |-> TRUE]

InitRobots ==
    /\ InitCrawler({DefaultConfig})
    /\ rDoc \in RobotsDocs
    /\ rUrl \in {"S", "A", "C", "P", "M"}
    /\ rRules = NoRules
    /\ rOut = FALSE
    /\ rPc = "doc"

\* config.parseRobotsTxt(rDoc, userAgent)
RobotsParse ==
    /\ rPc = "doc"
    /\ rRules' = ParseRobotsTxt(rDoc, UserAgent)
    /\ rPc' = "parsed"
    /\ UNCHANGED <<crawlerVars, rDoc, rUrl, rOut>>

\* config.isAllowedByRobots(rUrl, rRules)
RobotsEval ==
    /\ rPc = "parsed"
    /\ rOut' = IsAllowedByRobots(rUrl, rRules)
    /\ rPc' = "done"
    /\ UNCHANGED <<crawlerVars, rDoc, rUrl, rRules>>

NextRobots == RobotsParse \/ RobotsEval

SpecRobots == InitRobots /\ [][NextRobots]_vars

\* ================================================== properties
\* The entries of a sequence name pairwise different URLs.
DistinctUrls(seq) ==
    \A i, j \in DOMAIN seq : i # j => seq[i].url # seq[j].url

UrlsOf(seq) == {seq[i].url : i \in DOMAIN seq}

\* C1: one seed S, maxDepth 1, maxPages 10, two workers, every fetch and
\* store write succeeding, S linking to A, B, C and itself: when start()
\* has returned there are exactly four records (S, A, B, C), S was fetched
\* once, pagesProcessed is 4 and errors is 0.
C1_EndToEnd ==
    (/\ config.seedUrls = <<"S">>
     /\ config.maxDepth = 1
     /\ config.maxPages = 10
     /\ config.numCrawlers = 2
     /\ config.excludePattern.empty
     /\ ~config.respectRobots
     /\ nStarts = 1
     /\ startPc[1] = "returned"
     /\ ~stopCalled
     /\ ~envFailed)
    => (/\ Len(results) = 4
        /\ UrlsOf(results) = {"S", "A", "B", "C"}
        /\ fetched["S"] = 1
        /\ stats.pagesProcessed = 4
        /\ stats.errors = 0)

\* C3: every run that start() launched eventually returns, and its
\* onComplete callback is invoked exactly once (never more than once, and
\* once by the time start() has returned).
C3_RunTerminates ==
    <>[](\A r \in Runs :
            \/ startPc[r] \in {"notCalled", "threw"}
            \/ startPc[r] = "returned" /\ events.onComplete[r] = 1)

C3_Witness ==
    /\ startPc[1] = "returned"
    /\ events.onComplete[1] = 1
    /\ ~stopCalled
    /\ Len(claimed) >= 2

\* C6: the queue never holds two entries for the same URL (a second
\* addToQueue of a URL is a no-op).
C6_IdempotentOffer == DistinctUrls(queue)

\* C7: when the entries pushed on the queue name distinct URLs, stop() has
\* not run and there is at least one worker, no entry is delivered twice
\* and none is lost: the claimed
\* entries name distinct URLs, claimed and waiting entries together are
\* the pushed ones, and when start() has returned all of them were claimed.
C7_ClaimExclusive ==
    (DistinctUrls(enqueued) /\ ~stopCalled /\ config.numCrawlers >= 1)
    => (/\ DistinctUrls(claimed)
        /\ Len(claimed) + Len(queue) = Len(enqueued)
        /\ UrlsOf(claimed) \cup UrlsOf(queue) = UrlsOf(enqueued)
        /\ (startPc[1] = "returned" => Len(claimed) = Len(enqueued)))

C7_Witness ==
    /\ DistinctUrls(enqueued)
    /\ ~stopCalled
    /\ config.numCrawlers = 2
    /\ Len(enqueued) = 3
    /\ Len(claimed) = 3
    /\ w[<<1, 0>>].pc = "crawlReturn"
    /\ w[<<1, 1>>].pc = "crawlReturn"
    /\ w[<<1, 0>>].url # w[<<1, 1>>].url

\* A URL the configured exclude pattern matches.
Excluded(url) ==
    /\ ~config.excludePattern.empty
    /\ config.excludePattern.valid
    /\ url \in config.excludePattern.matches

\* C8: a URL that matches the configured exclude pattern is never pushed
\* on the queue, never claimed and never fetched.
C8_ExcludeFilter ==
    \A url \in URLs :
        Excluded(url) =>
            /\ url \notin UrlsOf(enqueued)
            /\ url \notin UrlsOf(queue)
            /\ url \notin UrlsOf(claimed)
            /\ fetched[url] = 0

\* An excluded URL was offered twice as a seed, next to an admitted one.
C8_Witness ==
    /\ \E i, j \in DOMAIN config.seedUrls :
           /\ i # j
           /\ config.seedUrls[i] = config.seedUrls[j]
           /\ Excluded(config.seedUrls[i])
    /\ nStarts >= 1
    /\ Len(enqueued) >= 1
    /\ Len(claimed) >= 1

\* Line i of a robots.txt document lies in a group that applies to the
\* crawler: the nearest User-agent line above it names * or the crawler.
InApplicableGroup(doc, i) ==
    \E k \in 1..(i - 1) :
        /\ doc[k].key = "user-agent"
        /\ doc[k].value \in {<<"*">>, UserAgent}
        /\ \A m \in (k + 1)..(i - 1) : doc[m].key # "user-agent"

\* Some applicable, non-empty directive of the given kind is a prefix of
\* the path.
DirectiveHits(doc, kind, path) ==
    \E i \in DOMAIN doc :
        /\ doc[i].key = kind
        /\ doc[i].value # <<>>
        /\ InApplicableGroup(doc, i)
        /\ StartsWith(path, doc[i].value)

\* C9: for a parseable URL the robots verdict is: permitted if some Allow
\* prefix of the policy is a prefix of the path, otherwise denied if some
\* Disallow prefix is, otherwise permitted; where the policy's prefixes are
\* the non-empty Allow / Disallow values of the applicable groups.
C9_RobotsEval ==
    (rPc = "done" /\ UrlValid(rUrl))
    => /\ rOut = (IF \E i \in DOMAIN rRules.allowed :
                        StartsWith(UrlPath(rUrl), rRules.allowed[i])
                  THEN TRUE
                  ELSE ~(\E j \in DOMAIN rRules.disallowed :
                            StartsWith(UrlPath(rUrl), rRules.disallowed[j])))
       /\ rOut = (IF DirectiveHits(rDoc, "allow", UrlPath(rUrl)) THEN TRUE
                  ELSE ~DirectiveHits(rDoc, "disallow", UrlPath(rUrl)))

\* Disallow: /p with no matching Allow denies /p/a.
C9_Witness ==
    /\ rPc = "done"
    /\ rUrl = "A"
    /\ rRules.disallowed = << <<"/", "p">> >>
    /\ rRules.allowed = <<>>
    /\ rOut = FALSE

\* C10: at most one start() call is between launching its workers and
\* returning.
C10_AtMostOneRun ==
    Cardinality({r \in Runs : startPc[r] = "awaitAll"}) <= 1

\* C11: a start() call made while isRunning is set throws, and leaves the
\* queue, visited, processing, results, stats and isRunning as they were.
C11_AlreadyRunning ==
    [][(isRunning /\ nStarts' = nStarts + 1)
       => (/\ startPc'[nStarts + 1] = "threw"
           /\ UNCHANGED <<queue, visited, processing, results, stats,
                          isRunning>>)]_vars

\* A second start() was refused while the first run had entries waiting.
C11_Witness ==
    /\ startPc[1] = "awaitAll"
    /\ startPc[2] = "threw"
    /\ isRunning
    /\ queue # <<>>

\* C12: with a configuration that validateCrawlConfig rejects, start()
\* fails: no seed is queued, no worker is launched, no fetch is made and no
\* event is emitted.
C12_InvalidConfigRejected ==
    ~ValidateCrawlConfig(config).isValid
    => (/\ enqueued = <<>>
        /\ \A wid \in Workers : w[wid].pc = "none"
        /\ \A url \in URLs : fetched[url] = 0
        /\ events.onPageCrawled = <<>>
        /\ events.onError = <<>>
        /\ \A r \in Runs : events.onComplete[r] = 0)

\* C13: once stop() has been called during a run, no worker of that run
\* claims another queue entry or adds an entry to the queue.
C13_StopHalts ==
    [][\A wid \in Workers :
           (wid[1] \in stoppedRuns /\ w'[wid] # w[wid])
           => (claimed' = claimed /\ enqueued' = enqueued)]_vars

\* C14: in every state the crawler can be in (before, during or after a
\* run), calling stop() twice in a row leaves the same state as calling it
\* once.
C14_StopIdempotent == StopBody(StopBody(Cur)) = StopBody(Cur)

\* stop() ran during a run and discarded entries that were waiting, while
\* a worker is still suspended.
C14_Witness ==
    /\ stopCalled
    /\ 1 \in stoppedRuns
    /\ startPc[1] = "awaitAll"
    /\ ~isRunning
    /\ queue = <<>>
    /\ Len(claimed) < Len(enqueued)
    /\ \E wid \in Workers : w[wid].pc \notin {"none", "done"}

\* Call wid has run a continuation from the await at pc with outcome out.
Took(wid, pc, out) ==
    \E i \in DOMAIN steps[wid] : steps[wid][i] = Step(pc, out)

\* C16: a page fetch that answers with a non-2xx status fails the page:
\* crawlPage rejects (so that the caller counts the error and emits
\* onError), and no record of the URL is added to results.
C16_Non2xxIsError ==
    \A wid \in Workers :
        Took(wid, "fetch", "404")
        => (/\ w[wid].pc = "crawlThrow"
            /\ w[wid].url \notin UrlsOf(results))

\* C17: with respectRobots set, a URL that robots.txt denies is dropped:
\* crawlPage resolves without fetching it, without a record, and no error
\* is counted or reported.
C17_RobotsDenialSilent ==
    \A wid \in Workers :
        Took(wid, "robotsDone", "false")
        => (/\ config.respectRobots
            /\ w[wid].pc = "crawlReturn"
            /\ fetched[w[wid].url] = 0
            /\ w[wid].url \notin UrlsOf(results)
            /\ ~(\E out \in Outcomes("fetch") : Took(wid, "fetch", out))
            /\ stats.errors = 0
            /\ events.onError = <<>>)

\* A was denied by the Disallow: /p line of its origin, while another call
\* fetched and recorded S.
C17_Witness ==
    /\ \E wid \in Workers :
           /\ w[wid].url = "A"
           /\ Took(wid, "robotsFetch", "ok")
           /\ Took(wid, "robotsDone", "false")
    /\ "S" \in UrlsOf(results)

\* C18: when the robots.txt fetch of checkRobotsTxt rejects or answers
\* with a non-ok status, that step stores the empty policy (no allowed, no
\* disallowed prefix, crawlDelay 0) for the origin and returns true.
C18_RobotsFetchFailure ==
    [][\A wid \in Workers :
           (\E out \in {"notok", "reject"} :
                steps'[wid] = Append(steps[wid], Step("robotsFetch", out)))
           => (/\ UrlOrigin(w[wid].url) \in DOMAIN robotsCache'
               /\ robotsCache'[UrlOrigin(w[wid].url)] =
                      [allowed |-> <<>>, disallowed |-> <<>>, crawlDelay |-> 0]
               /\ w'[wid].pc = "robotsDone"
               /\ w'[wid].allowed)]_vars

\* The robots.txt fetch for A failed, A was then permitted and fetched.
C18_Witness ==
    \E wid \in Workers :
        /\ w[wid].url = "A"
        /\ Took(wid, "robotsFetch", "notok")
        /\ Took(wid, "robotsDone", "true")
        /\ fetched["A"] = 1
        /\ robotsCache[UrlOrigin("A")] = EmptyRules

\* C19: checkRobotsTxt returns false for a URL that cannot be parsed, and
\* with respectRobots set such a URL is never fetched.
C19_MalformedDenied ==
    config.respectRobots
    => (/\ \A url \in URLs : ~UrlValid(url) => fetched[url] = 0
        /\ \A wid \in Workers :
               (w[wid].pc = "robotsDone" /\ ~UrlValid(w[wid].url))
               => ~w[wid].allowed)

\* C20: when storage.savePage rejects, the page is still processed to the
\* end: crawlPage does not reject (no error is counted or reported), the
\* page's links are offered to the queue and onPageCrawled is emitted.
C20_StoreFailureIgnored ==
    \A wid \in Workers :
        Took(wid, "save", "reject")
        => (/\ w[wid].pc = "crawlReturn"
            /\ \E i \in DOMAIN events.onPageCrawled :
                   events.onPageCrawled[i] = w[wid].url
            /\ (w[wid].url = "S" /\ w[wid].status = 200
                => "B" \in UrlsOf(enqueued)))

\* C21: when start() begins a run, the queue, visited, processing, results
\* and stats hold nothing of an earlier run: after the call, what they hold
\* was put there by this call (its seeds and the claims of its workers).
C21_RunScoped ==
    [][(nStarts' = nStarts + 1 /\ startPc'[nStarts + 1] = "awaitAll")
       => LET offered == Len(enqueued') - Len(enqueued)
              taken == {claimed'[i].url :
                            i \in (Len(claimed) + 1)..Len(claimed')}
          IN  /\ stats'.pagesQueued = offered
              /\ Len(queue') + Len(claimed') - Len(claimed) = offered
              /\ processing' \subseteq taken
              /\ visited' \subseteq taken
              /\ UrlsOf(results') \subseteq taken
              /\ stats'.pagesProcessed = Len(results')
              /\ stats'.errors = 0]_vars

\* An entry passes the depth, include and exclude predicates of shouldVisit.
Admissible(e) ==
    /\ ~(config.maxDepth > 0 /\ e.depth > config.maxDepth)
    /\ MatchesPattern(e.url, config.urlPattern)
    /\ ~(~config.excludePattern.empty
         /\ MatchesPattern(e.url, config.excludePattern))

\* C22: with robots compliance off, every URL claimed from the queue that
\* satisfies the depth and include / exclude predicates has, by the time
\* the (single, unstopped) run has returned, been passed to fetchPage and
\* ended as a result record or as a reported error.
C22_ClaimedIsProcessed ==
    (/\ ValidateCrawlConfig(config).isValid
     /\ ~config.respectRobots
     /\ nStarts = 1
     /\ startPc[1] = "returned"
     /\ ~stopCalled)
    => \A i \in DOMAIN claimed :
           Admissible(claimed[i])
           => (/\ fetched[claimed[i].url] >= 1
               /\ \/ claimed[i].url \in UrlsOf(results)
                  \/ \E k \in DOMAIN events.onError :
                         events.onError[k] = claimed[i].url
               /\ stats.pagesProcessed + stats.errors >= 1)

\* C23: with a valid configuration, every URL that has an entry in the
\* queue is in the visited set (addToQueue inserts it there before the
\* entry can be claimed).
C23_QueuedIsVisited ==
    ValidateCrawlConfig(config).isValid => UrlsOf(queue) \subseteq visited

\* Worker wid has claimed an entry and not yet removed its URL from
\* this.processing: it is suspended inside the try block of crawlWorker.
InFlight(wid) ==
    w[wid].pc \in {"crawlReturn", "crawlThrow", "robotsFetch", "robotsDone",
                   "fetch", "save"}

\* C24: with a valid configuration and a single start(), no two workers
\* are between claim and completion for the same URL at the same time.
C24_OneWorkerPerUrl ==
    (ValidateCrawlConfig(config).isValid /\ nStarts <= 1)
    => \A wid1, wid2 \in Workers :
           (wid1 # wid2 /\ InFlight(wid1) /\ InFlight(wid2))
           => w[wid1].url # w[wid2].url

\* C25: a worker whose loop ends while the run is neither stopped nor over
\* budget (isRunning still set) leaves only when the queue is empty and no
\* worker is between claim and completion; a worker that finds the queue
\* empty while another is in flight waits and tests again.
C25_ExitOnlyWhenDrained ==
    [][\A wid \in Workers :
           (w[wid].pc # "done" /\ w'[wid].pc = "done" /\ isRunning')
           => (/\ queue' = <<>>
               /\ processing' = {}
               /\ \A other \in Workers : ~InFlight(other)')]_vars

\* C26: the robots cache holds one policy per origin, and once an origin has
\* a cached policy and no robots.txt request for it is pending, the policy
\* stays what it is and no call issues another robots.txt request for that
\* origin.  (Two calls that both missed the cache both write; the later
\* write stands.)
C26_RobotsCacheConverges ==
    [][\A d \in DOMAIN robotsCache :
           (~\E wid \in Workers : /\ w[wid].pc = "robotsFetch"
                                  /\ UrlOrigin(w[wid].url) = d)
           => (/\ d \in DOMAIN robotsCache'
               /\ robotsCache'[d] = robotsCache[d]
               /\ ~\E wid \in Workers : /\ w'[wid].pc = "robotsFetch"
                                        /\ UrlOrigin(w'[wid].url) = d)]_vars

\* Two calls missed the cache for the same origin and both requests
\* settled, with different answers; the cache holds the later one.
C26_Witness ==
    /\ w[<<1, 0>>].url = "S"
    /\ w[<<1, 1>>].url = "A"
    /\ Took(<<1, 0>>, "robotsFetch", "ok")
    /\ Took(<<1, 1>>, "robotsFetch", "reject")
    /\ DOMAIN robotsCache = {"https://x.test"}
    /\ robotsCache["https://x.test"] = EmptyRules
    /\ w[<<1, 0>>].pc = "crawlReturn"
    /\ w[<<1, 1>>].pc = "crawlReturn"

\* C27: as long as stop() has not emptied the queue, the entries claimed so
\* far followed by the entries still waiting are the entries pushed, in the
\* order they were pushed: a claim takes the head, an offer appends at the
\* tail, and no waiting entry is passed over, whichever worker claims.
C27_Fifo == ~stopCalled => claimed \o queue = enqueued

\* Two workers have claimed the first two of three different seeds and the
\* third is still waiting.
C27_Witness ==
    /\ ~stopCalled
    /\ DistinctUrls(enqueued)
    /\ Len(enqueued) = 3
    /\ Len(claimed) = 2
    /\ Len(queue) = 1
    /\ w[<<1, 0>>].pc = "crawlReturn"
    /\ w[<<1, 1>>].pc = "crawlReturn"
    /\ w[<<1, 0>>].url # w[<<1, 1>>].url

\* C29: with a valid configuration, at every moment the URLs in
\* this.processing and the workers between claim and completion are each at
\* most config.numCrawlers.
C29_BoundedInFlight ==
    ValidateCrawlConfig(config).isValid
    => (/\ Cardinality(processing) <= config.numCrawlers
        /\ Cardinality({wid \in Workers : InFlight(wid)})
               <= config.numCrawlers)

\* C30: each URL is handed to fetchPage at most once, whatever became of
\* the first attempt, and a URL that robots.txt denied is never handed to
\* it: crawlPage puts the URL in this.visited before the robots check and
\* the fetch, and a later call for it returns at once.
C30_FetchedAtMostOnce ==
    \A url \in URLs :
        /\ fetched[url] <= 1
        /\ (\E wid \in Workers : /\ w[wid].url = url
                                 /\ Took(wid, "robotsDone", "false"))
           => fetched[url] = 0

\* The fetch of S failed, and a second call for S returned without a
\* robots check or a fetch.
C30_Witness ==
    /\ w[<<1, 0>>].url = "S"
    /\ w[<<1, 0>>].pc = "crawlThrow"
    /\ Took(<<1, 0>>, "fetch", "reject")
    /\ w[<<1, 1>>].url = "S"
    /\ w[<<1, 1>>].pc = "crawlReturn"
    /\ steps[<<1, 1>>] = <<>>
    /\ "S" \in visited
    /\ fetched["S"] = 1

====
